---- MODULE Spec2Model ----
(***************************************************************************)
(* State-machine model of bot.py: the status-panel reconciliation loop     *)
(* (update_panels), the statuspanel command, and the translation commands  *)
(* and auto-translate fan-out of on_message.                               *)
(*                                                                         *)
(* Handlers are coroutines on one event loop: the code between two awaits  *)
(* runs atomically, so every action below is one such stretch of code,     *)
(* from the completion of one await to the issue of the next.              *)
(***************************************************************************)
EXTENDS Integers, Sequences, FiniteSets, TLC

\* ------------------------------------------------------------------ bounds

\* Message ids the display surface hands out during a run.
MaxMessages == 3

\* Language codes given to setchannellangs in one command.
MaxArgs == 2

Users == {1, 2}

\* Two guilds: one that is reconciled first and one that comes later in a sweep.
Guilds == {1, 2}

\* Two text channels per guild; channel ids are globally unique.
ChannelsOf(g) == {10 * g + 1, 10 * g + 2}
Channels == UNION {ChannelsOf(g) : g \in Guilds}

\* ------------------------------------------------------------------ state

VARIABLES
    config,         \* in-memory config: keys = insertion order of config["guilds"]
    messages,       \* panel messages existing on the display surface
    next_id,        \* id the display surface gives to the next message
    unresolved,     \* guilds the caches do not resolve during the current sweep
    ready,          \* the connection reached the ready state
    on_ready_pc,    \* position of the on_ready handler
    loop_pc,        \* position of the update_panels task
    it_used,        \* dict size remembered by the iterator of the sweep
    it_pos,         \* number of dict entries the iterator has consumed
    cur,            \* locals of the sweep: guild, channel_id, message_id, embed
    calls,          \* display-surface calls completed by the current sweep
    sp,             \* the statuspanel handler in flight
    members,        \* guild -> user id -> presence ("absent": get_member finds none)
    user_languages,     \* user id -> language code (<<>>: no entry)
    auto_channel_langs, \* channel id -> target-language list (<<>>: no entry)
    msg,            \* the message on_message is handling
    fan             \* the auto-translate fan-out on_message ran for that message

panelVars == <<config, messages, next_id, unresolved,
               ready, on_ready_pc, loop_pc, it_used, it_pos, cur, calls, sp, members>>

transVars == <<user_languages, auto_channel_langs, msg, fan>>

vars == <<panelVars, transVars>>

loopVars == <<loop_pc, it_used, it_pos, cur, calls, unresolved>>

\* ------------------------------------------------------------------ config

Min(S) == CHOOSE x \in S : \A y \in S : x <= y

NoPanel == [present |-> FALSE, channel_id |-> 0, message_id |-> 0]

NewGuildCfg == [tracked_user_ids |-> <<>>, panel |-> NoPanel]

EmptyConfig == [keys |-> <<>>, guilds |-> [g \in Guilds |-> NewGuildCfg]]

InDict(cfg, g) == \E k \in 1..Len(cfg.keys) : cfg.keys[k] = g

\* get_guild_config: the entry is created when missing.
get_guild_config(cfg, g) ==
    IF InDict(cfg, g) THEN cfg
    ELSE [cfg EXCEPT !.keys = Append(@, g), !.guilds[g] = NewGuildCfg]

\* status_to_emoji_text: online, idle and dnd have their own text, every
\* other status is shown as offline.
status_to_emoji_text(status) ==
    IF status = "online" THEN "Online"
    ELSE IF status = "idle" THEN "Idle"
    ELSE IF status = "dnd" THEN "Do Not Disturb"
    ELSE "Offline"

\* Faulty variant: an id whose member is not found gets no line.
BuildStatusEmbedDropsNotFound(guild, guild_cfg) ==
    IF guild_cfg.tracked_user_ids = <<>>
    THEN <<"No tracked users yet">>
    ELSE LET found == SelectSeq(guild_cfg.tracked_user_ids, LAMBDA uid : guild[uid] # "absent")
         IN  [i \in 1..Len(found) |-> <<found[i], status_to_emoji_text(guild[found[i]])>>]

\* build_status_embed: the lines of the description, one per tracked id, or
\* the placeholder when no user is tracked. guild maps a user id to the
\* member's status.
build_status_embed(guild, guild_cfg) ==
    IF guild_cfg.tracked_user_ids = <<>>
    THEN <<"No tracked users yet">>
    ELSE [i \in 1..Len(guild_cfg.tracked_user_ids) |->
            LET uid == guild_cfg.tracked_user_ids[i] IN
            IF guild[uid] = "absent"
            THEN <<uid, "Not found in this server">>
            ELSE <<uid, status_to_emoji_text(guild[uid])>>]

NoLocals == [gid |-> 0, channel_id |-> 0, message_id |-> 0, embed |-> <<>>]

IdleSlot == [pc |-> "idle", gid |-> 0, channel |-> 0, embed |-> <<>>]

\* ------------------------------------------------------------------ languages

\* Strings are sequences of character codes, so that str.lower() and
\* str.strip() are computed and not assumed.
en == <<101, 110>>
es == <<101, 115>>
fr == <<102, 114>>
de == <<100, 101>>
it == <<105, 116>>
pt == <<112, 116>>
ru == <<114, 117>>
ja == <<106, 97>>
ko == <<107, 111>>
zh_cn == <<122, 104, 45, 99, 110>>
zh_tw == <<122, 104, 45, 116, 119>>
ar == <<97, 114>>

\* The keys of SUPPORTED_LANGS.
SUPPORTED_LANGS == {en, es, fr, de, it, pt, ru, ja, ko, zh_cn, zh_tw, ar}

\* str.lower() on ASCII text.
LowerChar(c) == IF c \in 65..90 THEN c + 32 ELSE c

Lower(str) == [i \in 1..Len(str) |-> LowerChar(str[i])]

\* str.strip() leaves nothing: every character is whitespace.
IsBlank(str) == \A i \in 1..Len(str) : str[i] \in {9, 10, 13, 32}

\* Arguments users type: "en", "EN", "fr", "xx".
RawCodes == {en, <<69, 78>>, fr, <<120, 120>>}

\* Languages translator.detect reports: "en", "fr", "de".
DetectLangs == {en, fr, de}

\* Message contents: "hi", " \n" and the empty content of an attachment.
Texts == {<<104, 105>>, <<32, 10>>, <<>>}

\* The content of a command message, "!c".
CommandText == <<33, 99>>

TextChannels == {1}

\* The text given to translate: none, or "hi".
TranslateArgs == {<<>>, <<<<104, 105>>>>}

ArgLists == UNION {[1..n -> RawCodes] : n \in 0..MaxArgs}

\* What translator.translate did for a translate command: nothing yet.
NoOutcome == [ok |-> TRUE, src |-> <<>>]

NoMsg == [pc |-> "idle", bot |-> FALSE, author |-> 0, channel |-> 0,
          cmd |-> "none", args |-> <<>>, text |-> <<>>,
          tr |-> NoOutcome, reply |-> "none", sends |-> 0]

\* replies counts the auto-translation replies posted since the last message
\* of the outside arrived.
NoFan == [ran |-> FALSE, targets |-> <<>>, src |-> <<>>, bad |-> {},
          raised |-> FALSE, translations |-> <<>>, sent |-> "none", replies |-> 0]

\* The content of an auto-translation reply, "Auto".
ReplyText == <<65, 117, 116, 111>>

\* The reply the bot posted in channel c, as the gateway delivers it to
\* on_message: its author is the bot.
Echo(c) == [NoMsg EXCEPT !.pc = "new", !.bot = TRUE, !.channel = c, !.text = ReplyText]

\* ------------------------------------------------------------------ init

Init ==
    /\ config = EmptyConfig
    /\ messages = {}
    /\ next_id = 1
    /\ unresolved = {}
    /\ ready = FALSE
    /\ on_ready_pc = "idle"
    /\ loop_pc = "stopped"
    /\ it_used = 0
    /\ it_pos = 0
    /\ cur = NoLocals
    /\ calls = <<>>
    /\ sp = IdleSlot
    /\ members = [g \in Guilds |-> [u \in Users |-> IF u = 1 THEN "online" ELSE "absent"]]
    /\ user_languages = [u \in Users |-> <<>>]
    /\ auto_channel_langs = [c \in TextChannels |-> <<>>]
    /\ msg = NoMsg
    /\ fan = NoFan

\* ------------------------------------------------------------------ on_ready

\* update_panels.is_running(): the task exists and has not ended.
is_running == loop_pc \notin {"stopped", "failed"}

\* The gateway reports ready and dispatches on_ready (again after a reconnect).
\* A dispatch while the loop runs is left out: on_ready only starts a loop
\* that is not running, and changes nothing else of this state.
OnReadyDispatch ==
    /\ on_ready_pc = "idle"
    /\ ~is_running
    /\ ready' = TRUE
    /\ on_ready_pc' = "change_presence"
    /\ UNCHANGED <<config, messages, next_id, loopVars, sp>>
    /\ UNCHANGED <<members, transVars>>

\* change_presence returned: start the loop unless it runs.
OnReadyStart ==
    /\ on_ready_pc = "change_presence"
    /\ on_ready_pc' = "idle"
    /\ loop_pc' = IF is_running THEN loop_pc ELSE "before_loop"
    /\ UNCHANGED <<config, messages, next_id, unresolved, ready,
                   it_used, it_pos, cur, calls, sp>>
    /\ UNCHANGED <<members, transVars>>

\* change_presence raised: on_ready ends before update_panels.start().
OnReadyPresenceFail ==
    /\ on_ready_pc = "change_presence"
    /\ on_ready_pc' = "idle"
    /\ UNCHANGED <<config, messages, next_id, ready, loopVars, sp>>
    /\ UNCHANGED <<members, transVars>>

\* ------------------------------------------------------------------ update_panels

\* Lines 468-470: the guild has a panel record.
HasPanel(cfg, g) == cfg.guilds[g].panel.present

\* Faulty variant: the sweep does not skip a guild that has no panel record.
ReconcilableAnyGuild(cfg, g, unres) == g \notin unres

\* Lines 468-484: the guild at a dict position is reconciled, not skipped.
Reconcilable(cfg, g, unres) ==
    LET p == cfg.guilds[g].panel IN
    /\ HasPanel(cfg, g)
    /\ g \notin unres
    /\ p.channel_id # 0 /\ p.message_id # 0

\* The iterator's next(): RuntimeError when the dict changed size.
SizeChanged(cfg, used) == used # Len(cfg.keys)

\* The dict position of the next guild the for statement reconciles after
\* position pos; 0 when it runs to the end of the dict.
NextReconciled(cfg, pos, unres) ==
    LET cand == {k \in (pos + 1)..Len(cfg.keys) : Reconcilable(cfg, cfg.keys[k], unres)}
    IN  IF cand = {} THEN 0 ELSE Min(cand)

\* The for statement from dict position pos on, up to the next fetch_message,
\* the end of the dict or the iterator's size check failing.
Advance(cfg, pos, used, unres) ==
    LET j == NextReconciled(cfg, pos, unres) IN
    IF SizeChanged(cfg, used)
    THEN /\ loop_pc' = "failed"
         /\ it_pos' = pos
         /\ cur' = NoLocals
         /\ unresolved' = {}
    ELSE IF j = 0
    THEN /\ loop_pc' = "sleep"
         /\ it_pos' = Len(cfg.keys)
         /\ cur' = NoLocals
         /\ unresolved' = {}
    ELSE /\ loop_pc' = "fetch"
         /\ it_pos' = j
         /\ unresolved' = unres
         /\ cur' = [gid |-> cfg.keys[j],
                    channel_id |-> cfg.guilds[cfg.keys[j]].panel.channel_id,
                    message_id |-> cfg.guilds[cfg.keys[j]].panel.message_id,
                    embed |-> <<>>]

\* Faulty variant: the exception of a failed call is not caught and ends the sweep.
OnFailureAbort(cfg, pos, used, unres) ==
    /\ loop_pc' = "failed"
    /\ it_pos' = pos
    /\ cur' = NoLocals
    /\ unresolved' = {}

\* Lines 495-496 and 501-502: "except Exception: continue" goes on with the
\* for statement.
OnFailure(cfg, pos, used, unres) == Advance(cfg, pos, used, unres)

\* Faulty variant: the task ticks without having been started by on_ready and
\* without waiting for the ready event.
FirstTickUngated == loop_pc \in {"stopped", "before_loop"}

\* Lines 505-508: the task was started and wait_until_ready returned.
FirstTickEnabled == loop_pc = "before_loop" /\ ready

\* A sweep begins: the first one once the ready gate is passed, the next
\* ones when the 60 s sleep ends. The guilds that get_guild or get_channel do
\* not resolve (lines 473-475, 482-484) are chosen for the sweep.
UP_Tick ==
    /\ \/ FirstTickEnabled
       \/ loop_pc = "sleep"
    /\ it_used' = Len(config.keys)
    /\ calls' = <<>>
    /\ \E unres \in SUBSET Guilds : Advance(config, 0, Len(config.keys), unres)
    /\ UNCHANGED <<config, messages, next_id, ready, on_ready_pc, sp>>
    /\ UNCHANGED <<members, transVars>>

Msg(c, m) == {x \in messages : x.channel_id = c /\ x.id = m}

Logged(op, ok) == Append(calls, [gid |-> cur.gid, op |-> op, ok |-> ok])

\* Faulty variant: a new message is sent although the panel message was found.
AfterFetchOkSends == "send"

\* Lines 497-500: fetch_message returned; what is awaited next.
AfterFetchOk == "edit"

\* fetch_message returned the message: render, issue the edit.
UP_FetchOk ==
    /\ loop_pc = "fetch"
    /\ Msg(cur.channel_id, cur.message_id) # {}
    /\ loop_pc' = AfterFetchOk
    /\ cur' = [cur EXCEPT !.embed = build_status_embed(members[cur.gid], config.guilds[cur.gid])]
    /\ calls' = Logged("fetch", TRUE)
    /\ UNCHANGED <<config, messages, next_id, unresolved, ready, on_ready_pc,
                   it_used, it_pos, sp>>
    /\ UNCHANGED <<members, transVars>>

\* Line 488-492: fetch_message raised; what is awaited next.
AfterFetchFailed == "send"

\* fetch_message raised (the message is gone, or the call failed): render,
\* issue the recreation send.
UP_FetchFail ==
    /\ loop_pc = "fetch"
    /\ loop_pc' = AfterFetchFailed
    /\ cur' = [cur EXCEPT !.embed = build_status_embed(members[cur.gid], config.guilds[cur.gid])]
    /\ calls' = Logged("fetch", FALSE)
    /\ UNCHANGED <<config, messages, next_id, unresolved, ready, on_ready_pc,
                   it_used, it_pos, sp>>
    /\ UNCHANGED <<members, transVars>>

UP_EditOk ==
    /\ loop_pc = "edit"
    /\ Msg(cur.channel_id, cur.message_id) # {}
    /\ messages' = {IF x.channel_id = cur.channel_id /\ x.id = cur.message_id
                    THEN [x EXCEPT !.content = cur.embed] ELSE x : x \in messages}
    /\ calls' = Logged("edit", TRUE)
    /\ Advance(config, it_pos, it_used, unresolved)
    /\ UNCHANGED <<config, next_id, ready, on_ready_pc, it_used, sp>>
    /\ UNCHANGED <<members, transVars>>

\* Lines 501-502: message.edit raised.
UP_EditFail ==
    /\ loop_pc = "edit"
    /\ calls' = Logged("edit", FALSE)
    /\ OnFailure(config, it_pos, it_used, unresolved)
    /\ UNCHANGED <<config, messages, next_id, ready, on_ready_pc,
                   it_used, sp>>
    /\ UNCHANGED <<members, transVars>>

\* Faulty variant: the id of the recreated message is not stored.
StoreRecreatedForgets(cfg, g, id) == cfg

\* Line 493: the message_id of the guild's current panel record is overwritten.
StoreRecreated(cfg, g, id) == [cfg EXCEPT !.guilds[g].panel.message_id = id]

\* The recreation send returned the new message; the id is stored, and
\* save_config succeeds or raises (caught by line 495).
UP_SendOk ==
    /\ loop_pc = "send"
    /\ next_id <= MaxMessages
    /\ messages' = messages \cup
          {[channel_id |-> cur.channel_id, id |-> next_id, content |-> cur.embed]}
    /\ next_id' = next_id + 1
    /\ config' = StoreRecreated(config, cur.gid, next_id)
    /\ \E saved \in BOOLEAN :
          /\ calls' = Logged("send", TRUE) \o
                        <<[gid |-> cur.gid, op |-> "save", ok |-> saved]>>
          /\ IF saved
             THEN Advance(config', it_pos, it_used, unresolved)
             ELSE OnFailure(config', it_pos, it_used, unresolved)
    /\ UNCHANGED <<ready, on_ready_pc, it_used, sp>>
    /\ UNCHANGED <<members, transVars>>

\* Faulty variant: a failed recreation clears the stored panel.
SendFailedClears(cfg, g) == [cfg EXCEPT !.guilds[g].panel = NoPanel]

\* Lines 495-496: what the handler of a failed recreation leaves in the config.
SendFailed(cfg, g) == cfg

\* The recreation send raised.
UP_SendFail ==
    /\ loop_pc = "send"
    /\ config' = SendFailed(config, cur.gid)
    /\ calls' = Logged("send", FALSE)
    /\ OnFailure(config', it_pos, it_used, unresolved)
    /\ UNCHANGED <<messages, next_id, ready, on_ready_pc, it_used, sp>>
    /\ UNCHANGED <<members, transVars>>

\* ------------------------------------------------------------------ statuspanel

\* The checks of lines 416-438 passed; await interaction.response.defer.
\* Guild ids are interchangeable: they are numbered in the order in which the
\* guilds first appear in the config.
SP_Begin(g, c) ==
    /\ ready
    /\ sp.pc = "idle"
    /\ g <= Len(config.keys) + 1
    /\ c \in ChannelsOf(g)
    /\ sp' = [pc |-> "defer", gid |-> g, channel |-> c, embed |-> <<>>]
    /\ UNCHANGED <<config, messages, next_id, ready, on_ready_pc, loopVars>>
    /\ UNCHANGED <<members, transVars>>

\* defer returned: get_guild_config, render, issue the send. The save_config
\* of a newly created entry may raise, which ends the handler.
SP_Deferred ==
    /\ sp.pc = "defer"
    /\ config' = get_guild_config(config, sp.gid)
    /\ \E saved \in BOOLEAN :
          /\ InDict(config, sp.gid) => saved
          /\ sp' = IF saved
                   THEN [sp EXCEPT !.pc = "send",
                            !.embed = build_status_embed(members[sp.gid], config'.guilds[sp.gid])]
                   ELSE IdleSlot
    /\ UNCHANGED <<messages, next_id, ready, on_ready_pc, loopVars>>
    /\ UNCHANGED <<members, transVars>>

\* defer raised: the handler ends.
SP_DeferFail ==
    /\ sp.pc = "defer"
    /\ sp' = IdleSlot
    /\ UNCHANGED <<config, messages, next_id, ready, on_ready_pc, loopVars>>
    /\ UNCHANGED <<members, transVars>>

\* Lines 449-452: the panel record is replaced.
StorePanel(cfg, g, c, id) ==
    [cfg EXCEPT !.guilds[g].panel =
        [present |-> TRUE, channel_id |-> c, message_id |-> id]]

\* channel.send returned the new message; the panel is stored (save_config
\* raising afterwards leaves the stored panel in memory).
SP_SendOk ==
    /\ sp.pc = "send"
    /\ next_id <= MaxMessages
    /\ messages' = messages \cup
          {[channel_id |-> sp.channel, id |-> next_id, content |-> sp.embed]}
    /\ next_id' = next_id + 1
    /\ config' = StorePanel(config, sp.gid, sp.channel, next_id)
    /\ sp' = IdleSlot
    /\ UNCHANGED <<ready, on_ready_pc, loopVars>>
    /\ UNCHANGED <<members, transVars>>

\* channel.send raised: the handler ends, nothing is stored.
SP_SendFail ==
    /\ sp.pc = "send"
    /\ sp' = IdleSlot
    /\ UNCHANGED <<config, messages, next_id, ready, on_ready_pc, loopVars>>
    /\ UNCHANGED <<members, transVars>>

\* ------------------------------------------------------------------ adduser, removeuser

Tracked(cfg, g) == cfg.guilds[g].tracked_user_ids

IsTracked(cfg, g, u) == \E i \in 1..Len(Tracked(cfg, g)) : Tracked(cfg, g)[i] = u

\* Faulty variant: the id is appended without the membership test.
AdduserAlwaysAppends(cfg, g, u) ==
    [cfg EXCEPT !.guilds[g].tracked_user_ids = Append(@, u)]

\* Lines 345-355: the id is appended unless it is in the list.
adduser(cfg, g, u) ==
    IF IsTracked(cfg, g, u) THEN cfg
    ELSE [cfg EXCEPT !.guilds[g].tracked_user_ids = Append(@, u)]

\* list.remove: the first occurrence of u is taken out of q.
ListRemove(q, u) ==
    LET i == Min({k \in 1..Len(q) : q[k] = u})
    IN  SubSeq(q, 1, i - 1) \o SubSeq(q, i + 1, Len(q))

\* Lines 387-397: the id is removed when it is in the list.
removeuser(cfg, g, u) ==
    IF ~IsTracked(cfg, g, u) THEN cfg
    ELSE [cfg EXCEPT !.guilds[g].tracked_user_ids = ListRemove(@, u)]

\* The adduser handler up to its await of send_message: the checks of lines
\* 329-342 passed. The save_config of a newly created entry may raise, which
\* ends the handler; the save_config of line 356 writes no state of the model.
AddUser(g, u) ==
    /\ ready
    /\ g <= Len(config.keys) + 1
    /\ \E saved \in BOOLEAN :
          /\ InDict(config, g) => saved
          /\ config' = IF saved
                        THEN adduser(get_guild_config(config, g), g, u)
                        ELSE get_guild_config(config, g)
    /\ UNCHANGED <<messages, next_id, ready, on_ready_pc, loopVars, sp>>
    /\ UNCHANGED <<members, transVars>>

\* The removeuser handler up to its await of send_message.
RemoveUser(g, u) ==
    /\ ready
    /\ g <= Len(config.keys) + 1
    /\ \E saved \in BOOLEAN :
          /\ InDict(config, g) => saved
          /\ config' = IF saved
                        THEN removeuser(get_guild_config(config, g), g, u)
                        ELSE get_guild_config(config, g)
    /\ UNCHANGED <<messages, next_id, ready, on_ready_pc, loopVars, sp>>
    /\ UNCHANGED <<members, transVars>>

\* ------------------------------------------------------------------ environment

\* A message is deleted on the display surface.
DeleteMessage ==
    /\ \E m \in messages : messages' = messages \ {m}
    /\ UNCHANGED <<config, next_id, ready, on_ready_pc, loopVars, sp>>
    /\ UNCHANGED <<members, transVars>>

\* ------------------------------------------------------------------ translation commands

\* Line 178: the code is a key of SUPPORTED_LANGS.
IsSupported(code) == code \in SUPPORTED_LANGS

\* set_language: the first argument, lower-cased, is stored when supported.
set_language(langs, author, args) ==
    IF args = <<>> \/ ~IsSupported(Lower(args[1]))
    THEN langs
    ELSE [langs EXCEPT ![author] = Lower(args[1])]

\* Faulty variant: only the first code is validated.
InvalidFirstOnly(codes) ==
    SelectSeq(SubSeq(codes, 1, 1), LAMBDA code : code \notin SUPPORTED_LANGS)

\* Line 270: the lower-cased codes that are not supported.
InvalidCodes(codes) == SelectSeq(codes, LAMBDA code : code \notin SUPPORTED_LANGS)

\* set_channel_langs: all codes, lower-cased, are stored when all are supported.
set_channel_langs(chans, channel, args) ==
    LET lang_codes == [i \in 1..Len(args) |-> Lower(args[i])] IN
    IF args = <<>> \/ InvalidCodes(lang_codes) # <<>>
    THEN chans
    ELSE [chans EXCEPT ![channel] = lang_codes]

\* Faulty variant: no reply when the text is already in the user's language.
TranslateSkipsSame(langs, author, args, outcome) ==
    IF args = <<>> THEN "usage"
    ELSE IF langs[author] = <<>> THEN "setlang_first"
    ELSE IF ~outcome.ok THEN "error"
    ELSE IF outcome.src = langs[author] THEN "none"
    ELSE "translation"

\* translate_text up to its first await: the message it sends. outcome is
\* what translator.translate does: it returns the detected source, or raises.
translate_text(langs, author, args, outcome) ==
    IF args = <<>> THEN "usage"
    ELSE IF langs[author] = <<>> THEN "setlang_first"
    ELSE IF ~outcome.ok THEN "error"
    ELSE "translation"

\* clear_channel_langs: the entry of the channel is deleted.
clear_channel_langs(chans, channel) == [chans EXCEPT ![channel] = <<>>]

\* ------------------------------------------------------------------ on_message

\* Faulty variant: no target is skipped.
SkipNever(lang, src_lang) == FALSE

\* Line 541: the target is skipped.
SkipTarget(lang, src_lang) == lang = src_lang

\* Lines 545-547: the translation is added to the list.
Accumulate(translations, entry) == Append(translations, entry)

\* Lines 538-547: the loop over the target languages. bad holds the targets
\* for which translator.translate raises; the exception leaves the loop.
RECURSIVE FanLoop(_, _, _, _, _)
FanLoop(target_langs, text, src_lang, bad, translations) ==
    IF target_langs = <<>>
    THEN [raised |-> FALSE, translations |-> translations]
    ELSE LET lang == Head(target_langs) IN
         IF SkipTarget(lang, src_lang)
         THEN FanLoop(Tail(target_langs), text, src_lang, bad, translations)
         ELSE IF lang \in bad
         THEN [raised |-> TRUE, translations |-> translations]
         ELSE FanLoop(Tail(target_langs), text, src_lang, bad,
                      Accumulate(translations, [lang |-> lang, text |-> <<text, lang>>]))

\* Faulty variant: the reply is sent whether or not there are translations.
ReplyAlways(translations) == TRUE

\* Line 549: a reply is sent.
ReplyNeeded(translations) == translations # <<>>

\* Lines 522-559, up to the await of channel.send: the message m is
\* auto-translated when its channel is configured and its text is not blank.
FanOutSection(m) ==
    LET target_langs == auto_channel_langs[m.channel] IN
    IF target_langs = <<>> \/ IsBlank(m.text)
    THEN /\ fan' = [NoFan EXCEPT !.replies = fan.replies]
         /\ msg' = NoMsg
    ELSE \/ \* translator.detect raises
            /\ fan' = [NoFan EXCEPT !.ran = TRUE, !.targets = target_langs, !.raised = TRUE,
                                    !.replies = fan.replies]
            /\ msg' = NoMsg
         \/ \E src_lang \in DetectLangs :
            \E bad \in SUBSET {target_langs[i] : i \in 1..Len(target_langs)} :
               LET out == FanLoop(target_langs, m.text, src_lang, bad, <<>>)
                   replies == ~out.raised /\ ReplyNeeded(out.translations)
               IN  /\ fan' = [ran |-> TRUE, targets |-> target_langs, src |-> src_lang,
                              bad |-> bad, raised |-> out.raised,
                              translations |-> out.translations,
                              sent |-> IF replies THEN "pending" ELSE "none",
                              replies |-> fan.replies]
                   /\ msg' = IF replies THEN [m EXCEPT !.pc = "reply"] ELSE NoMsg

\* A message arrives and on_message is called.
M_Receive ==
    /\ msg.pc = "idle"
    /\ \E bot \in BOOLEAN, author \in Users, channel \in TextChannels :
          \/ \E text \in Texts :
                msg' = [NoMsg EXCEPT !.pc = "new", !.bot = bot, !.author = author,
                                     !.channel = channel, !.text = text]
          \/ \E cmd \in {"setlang", "setchannellangs"}, args \in ArgLists :
                msg' = [NoMsg EXCEPT !.pc = "new", !.bot = bot, !.author = author,
                                     !.channel = channel, !.cmd = cmd, !.args = args,
                                     !.text = CommandText]
          \/ msg' = [NoMsg EXCEPT !.pc = "new", !.bot = bot, !.author = author,
                                  !.channel = channel, !.cmd = "clearchannellangs",
                                  !.text = CommandText]
          \/ \E args \in TranslateArgs :
                msg' = [NoMsg EXCEPT !.pc = "new", !.bot = bot, !.author = author,
                                     !.channel = channel, !.cmd = "translate", !.args = args,
                                     !.text = CommandText]
    /\ fan' = NoFan
    /\ UNCHANGED <<user_languages, auto_channel_langs>>
    /\ UNCHANGED panelVars

\* Faulty variant: no author is ignored.
IgnoredNever(m) == FALSE

\* Line 516: the author of the message is a bot.
IgnoredAuthor(m) == m.bot

\* Lines 516-517: a message of a bot is ignored.
M_Bot ==
    /\ msg.pc = "new" /\ IgnoredAuthor(msg)
    /\ msg' = NoMsg
    /\ UNCHANGED <<user_languages, auto_channel_langs, fan>>
    /\ UNCHANGED panelVars

\* process_commands runs the command up to its await of ctx.send.
M_Command ==
    /\ msg.pc = "new" /\ ~IgnoredAuthor(msg) /\ msg.cmd # "none"
    /\ user_languages' =
          IF msg.cmd = "setlang"
          THEN set_language(user_languages, msg.author, msg.args)
          ELSE user_languages
    /\ auto_channel_langs' =
          IF msg.cmd = "setchannellangs"
          THEN set_channel_langs(auto_channel_langs, msg.channel, msg.args)
          ELSE IF msg.cmd = "clearchannellangs"
          THEN clear_channel_langs(auto_channel_langs, msg.channel)
          ELSE auto_channel_langs
    /\ IF msg.cmd = "translate"
       THEN \E ok \in BOOLEAN, src \in DetectLangs :
               LET outcome == IF msg.args = <<>> \/ user_languages[msg.author] = <<>>
                              THEN NoOutcome
                              ELSE [ok |-> ok, src |-> IF ok THEN src ELSE <<>>]
               IN  msg' = [msg EXCEPT !.pc = "cmd_reply", !.tr = outcome, !.sends = 1,
                              !.reply = translate_text(user_languages, msg.author,
                                                       msg.args, outcome)]
       ELSE msg' = [msg EXCEPT !.pc = "cmd_reply", !.reply = "result", !.sends = 1]
    /\ UNCHANGED fan
    /\ UNCHANGED panelVars

\* Lines 227-233: ctx.send of the translation raised inside the try; the
\* handler of the exception sends the failure message.
M_TranslateSendFail ==
    /\ msg.pc = "cmd_reply" /\ msg.cmd = "translate" /\ msg.reply = "translation"
    /\ msg' = [msg EXCEPT !.reply = "error", !.sends = 2]
    /\ UNCHANGED <<user_languages, auto_channel_langs, fan>>
    /\ UNCHANGED panelVars

\* ctx.send of the command returned or raised; process_commands returns and
\* on_message goes on with the auto-translation of the command message.
M_CommandDone ==
    /\ msg.pc = "cmd_reply"
    /\ FanOutSection(msg)
    /\ UNCHANGED <<user_languages, auto_channel_langs>>
    /\ UNCHANGED panelVars

\* A message that is no command: process_commands returns at once.
M_Plain ==
    /\ msg.pc = "new" /\ ~IgnoredAuthor(msg) /\ msg.cmd = "none"
    /\ FanOutSection(msg)
    /\ UNCHANGED <<user_languages, auto_channel_langs>>
    /\ UNCHANGED panelVars

\* channel.send of the reply returned: on_message ends, and the reply the bot
\* posted arrives as a message of its own.
M_ReplySent ==
    /\ msg.pc = "reply"
    /\ msg' = Echo(msg.channel)
    /\ fan' = [fan EXCEPT !.sent = "ok", !.replies = @ + 1]
    /\ UNCHANGED <<user_languages, auto_channel_langs>>
    /\ UNCHANGED panelVars

\* channel.send of the reply raised (caught by line 558).
M_ReplyFail ==
    /\ msg.pc = "reply"
    /\ msg' = NoMsg
    /\ fan' = [fan EXCEPT !.sent = "failed"]
    /\ UNCHANGED <<user_languages, auto_channel_langs>>
    /\ UNCHANGED panelVars

\* ------------------------------------------------------------------ claims: panel

Last(q) == q[Len(q)]

PanelOf(cfg, g) == cfg.guilds[g].panel

Entries(g, op) == {i \in 1..Len(calls) : calls[i].gid = g /\ calls[i].op = op}

FetchFailedIn(g) == \E i \in Entries(g, "fetch") : ~calls[i].ok

\* Sends of the sweep for guild g: completed ones and the one in flight.
SendsAttempted(g) ==
    Cardinality(Entries(g, "send")) + (IF loop_pc = "send" /\ cur.gid = g THEN 1 ELSE 0)

\* The step is the completion of a successful recreation send of the sweep.
RecreatedStep ==
    /\ loop_pc = "send"
    /\ Len(calls') = Len(calls) + 2
    /\ calls'[Len(calls) + 1] = [gid |-> cur.gid, op |-> "send", ok |-> TRUE]

C1_OneSend == \A g \in Guilds : FetchFailedIn(g) => SendsAttempted(g) = 1

C1_Stored ==
    RecreatedStep =>
        \E m \in messages' \ messages :
            /\ PanelOf(config', cur.gid).message_id = m.id
            /\ PanelOf(config', cur.gid).message_id # PanelOf(config, cur.gid).message_id
            /\ PanelOf(config', cur.gid).channel_id = PanelOf(config, cur.gid).channel_id

\* C1: in a sweep, a guild whose fetch_message failed gets exactly one send
\* attempt, and when that send succeeds the stored message_id becomes the id of
\* the new message while the stored channel_id is unchanged.
C1_Recreation == []C1_OneSend /\ [][C1_Stored]_vars

C1_Witness ==
    \E g \in Guilds : \E i \in Entries(g, "send") :
        /\ calls[i].ok
        /\ FetchFailedIn(g)
        /\ \E m \in messages : m.id = PanelOf(config, g).message_id /\ m.id > 1

\* The step is the completion of a failed recreation send of the sweep.
SendFailedStep ==
    /\ loop_pc = "send"
    /\ Len(calls') = Len(calls) + 1
    /\ Last(calls') = [gid |-> cur.gid, op |-> "send", ok |-> FALSE]

FetchFailedStep ==
    /\ loop_pc = "fetch"
    /\ Len(calls') = Len(calls) + 1
    /\ Last(calls') = [gid |-> cur.gid, op |-> "fetch", ok |-> FALSE]

\* C2: when fetch_message fails and the recreation send fails too, neither
\* step of the sweep alters the stored panel of the guild (nor of any guild).
C2_FailedRecreationKeepsPanel ==
    [][(FetchFailedStep \/ SendFailedStep) => config' = config]_vars

C2_Witness ==
    \E g \in Guilds : \E i \in Entries(g, "send") :
        /\ ~calls[i].ok
        /\ FetchFailedIn(g)
        /\ PanelOf(config, g).present

\* The step completes the reconciliation of the current guild with a failure:
\* the recreation send failed, the edit failed, or save_config failed.
FailureStep ==
    /\ loop_pc \in {"send", "edit"}
    /\ Len(calls') > Len(calls)
    /\ ~Last(calls').ok

\* Dict positions after the current one whose guild has a panel the caches resolve.
LaterPanels ==
    {k \in (it_pos + 1)..Len(config.keys) :
        PanelOf(config, config.keys[k]).present /\ config.keys[k] \notin unresolved}

\* C3: a failure reconciling the current guild does not end the sweep: when a
\* later guild of the dict being iterated has a resolvable panel, its
\* fetch_message is the next call of the sweep.
C3_Isolation ==
    [][(FailureStep /\ it_used = Len(config.keys) /\ LaterPanels # {}) =>
          /\ loop_pc' = "fetch"
          /\ cur'.gid = config.keys[Min(LaterPanels)]]_vars

C3_Witness ==
    \E i \in 1..Len(calls) : \E j \in (i + 1)..Len(calls) :
        /\ calls[i].op \in {"send", "edit", "save"} /\ ~calls[i].ok
        /\ calls[j].gid # calls[i].gid

\* C8 as claimed: at most one panel message exists per guild.
C8_AtMostOnePanelMessage ==
    \A g \in Guilds : Cardinality({m \in messages : m.channel_id \in ChannelsOf(g)}) <= 1

C9_NoCall ==
    /\ loop_pc \in {"fetch", "edit", "send"} => PanelOf(config, cur.gid).present
    /\ \A i \in 1..Len(calls) : PanelOf(config, calls[i].gid).present

C9_NoCreation ==
    \A g \in Guilds :
        (~PanelOf(config, g).present /\ PanelOf(config', g).present) =>
            (sp.pc = "send" /\ sp.gid = g /\ sp'.pc = "idle" /\ UNCHANGED loopVars)

\* C9: the sweep makes no fetch, edit or send for a guild without a panel
\* record, and a panel record appears only in a step of the statuspanel handler.
C9_LoopNeverCreates == []C9_NoCall /\ [][C9_NoCreation]_vars

\* A sweep has passed a guild that has no panel record.
C9_Witness ==
    /\ loop_pc = "fetch"
    /\ \E k \in 1..(it_pos - 1) : ~PanelOf(config, config.keys[k]).present

FetchOkIn(g) == \E i \in Entries(g, "fetch") : calls[i].ok

\* Edits of the sweep for guild g: completed ones and the one in flight.
EditsAttempted(g) ==
    Cardinality(Entries(g, "edit")) + (IF loop_pc = "edit" /\ cur.gid = g THEN 1 ELSE 0)

C17_OneEditNoSend ==
    \A g \in Guilds : FetchOkIn(g) => EditsAttempted(g) = 1 /\ SendsAttempted(g) = 0

\* The step is the completion of a successful fetch or of an edit of the sweep.
EditPathStep ==
    /\ loop_pc \in {"fetch", "edit"}
    /\ Len(calls') = Len(calls) + 1
    /\ Last(calls').op = "edit" \/ Last(calls').ok

C17_PanelKept == EditPathStep => config' = config

\* C17: in a sweep, a guild whose fetch_message succeeded gets exactly one
\* edit attempt and no send, and neither the fetch nor the edit, succeeding
\* or failing, alters a stored panel.
C17_EditPath == []C17_OneEditNoSend /\ [][C17_PanelKept]_vars

\* An edit failed after a successful fetch and the sweep went on or ended.
C17_Witness ==
    \E g \in Guilds : \E i \in Entries(g, "edit") :
        /\ ~calls[i].ok
        /\ FetchOkIn(g)
        /\ PanelOf(config, g).present
        /\ ~(loop_pc = "edit" /\ cur.gid = g)

\* The stored panel of guild g refers to a message that exists on the stored channel.
Refers(cfg, msgs, g) ==
    \E m \in msgs : /\ m.id = PanelOf(cfg, g).message_id
                    /\ m.channel_id = PanelOf(cfg, g).channel_id

\* A message is deleted on the display surface.
ExternalDeletion == messages' # messages /\ messages' \subseteq messages

\* The display surface's fetch has not failed for a message that exists: the
\* message a recreation in flight replaces is gone.
FetchFaithful == loop_pc = "send" => Msg(cur.channel_id, cur.message_id) = {}

\* C18 as claimed, the part that says the panel stays reconciled: when fetch
\* fails only for deleted messages, a stored panel that refers to an existing
\* message on the stored channel keeps doing so until a message is deleted
\* externally.
C18_StaysUntilDeleted ==
    [][\A g \in Guilds :
          (FetchFaithful /\ Refers(config, messages, g) /\ ~Refers(config', messages', g))
              => ExternalDeletion]_vars

\* C19 as claimed: the message_id a recreation stores is paired with the
\* channel_id of the channel the recreated message was sent to.
C19_RecreationPairsChannel ==
    [][RecreatedStep =>
          \A m \in messages' \ messages :
              m.channel_id = PanelOf(config', cur.gid).channel_id]_vars

\* C15: the task is past its before_loop, in a sweep or between sweeps, only
\* when the connection has reached the ready state.
C15_NoSweepBeforeReady == loop_pc \notin {"stopped", "before_loop"} => ready

\* A sweep has made a call.
C15_Witness == ready /\ loop_pc \in {"edit", "send"} /\ calls # <<>>

\* C16 as claimed: nothing stops the loop: the task never ends with an
\* exception that escaped a sweep.
C16_LoopNeverStops == loop_pc # "failed"

\* ------------------------------------------------------------------ claims: translation

Range(q) == {q[i] : i \in 1..Len(q)}

Langs(translations) == [i \in 1..Len(translations) |-> translations[i].lang]

\* The languages of the reply on_message sent or tried to send.
Emitted == IF fan.sent = "none" THEN <<>> ELSE Langs(fan.translations)

\* The fan-out ran and translator.detect returned a language.
Detected == fan.ran /\ fan.src # <<>>

\* The configured targets that are neither the source language nor failing.
Remaining == SelectSeq(fan.targets, LAMBDA t : t # fan.src /\ t \notin fan.bad)

\* C4 as claimed: when translation fails for a target, the other targets that
\* are not skipped are still emitted.
C4_TargetFailuresIsolated ==
    (Detected /\ fan.bad \ {fan.src} # {}) => Range(Remaining) \subseteq Range(Emitted)

\* C5: the detected source language is never among the languages of the
\* translations the fan-out produces.
C5_SourceNeverEmitted ==
    Detected => \A i \in 1..Len(fan.translations) : fan.translations[i].lang # fan.src

C5_Witness ==
    /\ Detected /\ fan.sent = "ok"
    /\ fan.src \in Range(fan.targets)
    /\ Len(fan.targets) > 1

\* C6 as claimed: the emitted list is the configured list restricted to the
\* targets that were neither skipped nor failed, in that order.
C6_EmittedInConfiguredOrder == Detected => Emitted = Remaining

\* C7: when no translation remains after the skip (every target is the source
\* language or fails), no reply is sent.
C7_NoEmptyReply == (fan.ran /\ Remaining = <<>>) => fan.sent = "none"

C7_Witness ==
    /\ Detected /\ fan.targets = <<fan.src>>
    /\ fan.sent = "none" /\ msg.pc = "idle"

C10_Supported ==
    /\ \A u \in Users : user_languages[u] # <<>> => user_languages[u] \in SUPPORTED_LANGS
    /\ \A c \in TextChannels : Range(auto_channel_langs[c]) \subseteq SUPPORTED_LANGS

\* The command on_message is about to run names a code that, lower-cased, is
\* not supported: the lang_code of setlang, any code of setchannellangs.
UnsupportedCommand ==
    /\ msg.pc = "new" /\ ~msg.bot
    /\ \/ /\ msg.cmd = "setlang" /\ msg.args # <<>>
          /\ Lower(msg.args[1]) \notin SUPPORTED_LANGS
       \/ /\ msg.cmd = "setchannellangs"
          /\ \E i \in 1..Len(msg.args) : Lower(msg.args[i]) \notin SUPPORTED_LANGS

C10_Rejected ==
    UnsupportedCommand => UNCHANGED <<user_languages, auto_channel_langs>>

\* C10: every code held in user_languages and in the lists of
\* auto_channel_langs is a supported code, and a command naming an unsupported
\* code leaves both maps unchanged.
C10_OnlySupportedCodes == []C10_Supported /\ [][C10_Rejected]_vars

\* A setchannellangs naming an unsupported code ran on a configured channel.
C10_Witness ==
    /\ msg.pc = "cmd_reply" /\ msg.cmd = "setchannellangs"
    /\ \E i \in 1..Len(msg.args) : Lower(msg.args[i]) \notin SUPPORTED_LANGS
    /\ auto_channel_langs[msg.channel] # <<>>
    /\ \E u \in Users : user_languages[u] # <<>>

NoDuplicates(q) == \A i, j \in 1..Len(q) : q[i] = q[j] => i = j

\* C11 as claimed: the target-language list stored for a channel never holds
\* the same language code twice.
C11_NoDuplicateTargets ==
    \A c \in TextChannels : NoDuplicates(auto_channel_langs[c])

\* A translate command with text, by a user who has a language preference,
\* has run up to a send.
TranslateAsked ==
    /\ msg.cmd = "translate" /\ msg.pc = "cmd_reply"
    /\ msg.args # <<>> /\ user_languages[msg.author] # <<>>

\* C14: a translate command with text by a user who has a preference always
\* sends a message: the translation when translator.translate returned,
\* whatever the source language, and the failure message when it raised (or
\* when the send of the translation raised).
C14_TranslateAlwaysAnswers ==
    TranslateAsked =>
        /\ msg.sends >= 1
        /\ msg.reply = IF msg.tr.ok /\ msg.sends = 1 THEN "translation" ELSE "error"

\* The translation of a text that is already in the user's language is sent.
C14_Witness ==
    /\ TranslateAsked
    /\ msg.tr.ok /\ msg.tr.src = user_languages[msg.author]
    /\ msg.reply = "translation"

C20_AtMostOneReply == fan.replies <= 1

C20_BotIgnored ==
    (msg.pc = "new" /\ msg.bot) =>
        (msg'.pc = "idle" /\ UNCHANGED <<fan, user_languages, auto_channel_langs>>)

\* C20: a message of a bot, the bot's own reply included, ends on_message
\* with no detection, translation, reply or change of the maps, and a message
\* of the outside leads to at most one auto-translation reply.
C20_NoCascade == []C20_AtMostOneReply /\ [][C20_BotIgnored]_vars

\* The bot's reply came back to on_message in a configured channel and was ignored.
C20_Witness ==
    /\ msg.pc = "idle"
    /\ fan.sent = "ok" /\ fan.replies = 1
    /\ auto_channel_langs[1] # <<>>

\* ------------------------------------------------------------------ claims: tracked users

C12_NoDuplicateIds == \A g \in Guilds : NoDuplicates(Tracked(config, g))

C12_NoOpUnchanged ==
    \A g \in Guilds, u \in Users :
        /\ (AddUser(g, u) /\ IsTracked(config, g, u)) => Tracked(config', g) = Tracked(config, g)
        /\ (RemoveUser(g, u) /\ ~IsTracked(config, g, u)) => Tracked(config', g) = Tracked(config, g)

\* C12: no tracked_user_ids list holds a user id twice, and adduser of a
\* tracked user and removeuser of an untracked user leave the list unchanged.
C12_TrackedIdsUnique == []C12_NoDuplicateIds /\ [][C12_NoOpUnchanged]_vars

\* Two adduser commands took effect in a guild, user 2 first.
C12_Witness == \E g \in Guilds : Tracked(config, g) = <<2, 1>>

\* The embed has one line per id of ids, in that order; the line of an id
\* without member is the not-found line; no id gives the placeholder.
Rendered(embed, ids, guild) ==
    IF ids = <<>>
    THEN embed = <<"No tracked users yet">>
    ELSE /\ Len(embed) = Len(ids)
         /\ \A i \in 1..Len(ids) :
               /\ embed[i][1] = ids[i]
               /\ embed[i][2] = "Not found in this server" <=> guild[ids[i]] = "absent"

\* C13: the embed statuspanel renders has exactly one line per tracked id, in
\* the order of tracked_user_ids, a not-found line for an id without member,
\* and the single placeholder line when the list is empty.
C13_OneLinePerTrackedId ==
    [][(sp.pc = "defer" /\ sp'.pc = "send") =>
          Rendered(sp'.embed, Tracked(config', sp.gid), members[sp.gid])]_vars

\* An embed was rendered whose first id has no member and whose second has.
C13_Witness ==
    /\ sp.pc = "send"
    /\ Len(sp.embed) = 2
    /\ sp.embed[1] = <<2, "Not found in this server">>
    /\ sp.embed[2] = <<1, "Online">>

\* ------------------------------------------------------------------ specification

\* The status panel: the loop, the statuspanel command and the display surface.
Next ==
    \/ OnReadyDispatch
    \/ OnReadyStart
    \/ OnReadyPresenceFail
    \/ UP_Tick
    \/ UP_FetchOk
    \/ UP_FetchFail
    \/ UP_EditOk
    \/ UP_EditFail
    \/ UP_SendOk
    \/ UP_SendFail
    \/ \E g \in Guilds, c \in Channels : SP_Begin(g, c)
    \/ SP_Deferred
    \/ SP_DeferFail
    \/ SP_SendOk
    \/ SP_SendFail
    \/ DeleteMessage

Spec == Init /\ [][Next]_vars

\* The translator: the prefix commands and on_message.
NextTranslate ==
    \/ M_Receive
    \/ M_Bot
    \/ M_Command
    \/ M_TranslateSendFail
    \/ M_CommandDone
    \/ M_Plain
    \/ M_ReplySent
    \/ M_ReplyFail

SpecTranslate == Init /\ [][NextTranslate]_vars

\* The tracked users: adduser, removeuser and the statuspanel command up to
\* its send, which renders them. Left out are the sweep, which only reads
\* tracked_user_ids, and the success of the send, which writes the panel
\* record and the display surface that none of these steps reads; Spec
\* explores both.
NextTrack ==
    \/ OnReadyDispatch
    \/ OnReadyStart
    \/ OnReadyPresenceFail
    \/ \E g \in Guilds, u \in Users : AddUser(g, u)
    \/ \E g \in Guilds, u \in Users : RemoveUser(g, u)
    \/ \E g \in Guilds, c \in Channels : SP_Begin(g, c)
    \/ SP_Deferred
    \/ SP_DeferFail
    \/ SP_SendFail

SpecTrack == Init /\ [][NextTrack]_vars

====
